---- MODULE Spec2Model ----
(***************************************************************************)
(* Model of the lrytas crawler (src/src/lrytas/scraper.py, class Scraper)  *)
(* and of the export-time title deduplication                              *)
(* (src/src/lrytas/dataset_builder.py, DatasetBuilder._ignore_duplicates). *)
(*                                                                         *)
(* The crawler is one synchronous process.  Its control position is pc:    *)
(*   "idle"     constructed (__init__ has run), scrape() not yet called    *)
(*   "loop"     at the test of the outer while of scrape()      (line 78)  *)
(*   "query"    a query was popped, _scrape(query) is about to run         *)
(*   "backoff"  _scrape returned False, body of the inner while (86-88)    *)
(*   "urls"     inside the for loop of _scrape                 (101-107)   *)
(*   "save"     _save_sample entered, record not yet written   (221-225)   *)
(*   "mark"     record written, seen_urls/dataset_length not yet updated   *)
(*   "done"     scrape() returned                                (line 90) *)
(*   "failed"   an exception left scrape() and ended the process           *)
(*   "crashed"  no process: it was killed or has exited; only the store    *)
(*              file survives                                              *)
(* The store file is the sequence store; everything else is process memory.*)
(* The collaborators (search page, article page) are nondeterministic:     *)
(* their answers are drawn from small sets.  The crawler runs inside the   *)
(* with block of scripts/scrape.py, so the driver is never None in         *)
(* _get_article_urls.                                                      *)
(***************************************************************************)
EXTENDS Integers, Sequences, FiniteSets, TLC

\* ------------------------------------------------------------------ bounds
MaxUrl == 3            \* article URLs are 1..MaxUrl
PoolSize == 3          \* size of the word pool (top_n_list("lt", 1000) scaled down)
MaxMaxArticles == 3    \* --max-articles is drawn from 0..MaxMaxArticles
MaxInitStore == 2      \* longest store file the first process starts on
EvWindow == 3          \* how many of the latest events the model remembers

\* ------------------------------------------------------- program constants
BatchSize == 25        \* scraper.py line 79: dataset_length - track > 25
ProgressEvery == 10    \* scraper.py line 230: dataset_length % 10 == 0

VARIABLES
    store,           \* the jsonlines file at dataset_path: a sequence of records
    dataset_length,  \* self.dataset_length
    seen_urls,       \* self.seen_urls
    max_articles,    \* self.max_articles
    words,           \* self.words, popped from the end
    track,           \* local variable track of scrape()
    query,           \* local variable query of scrape() (0: none yet)
    rest,            \* URLs the for loop of _scrape has still to visit
    sample,          \* the sample handed to _save_sample (NoSample: none)
    pc,              \* control position, see above
    \* ---- observation (history) variables, reset by every construction
    ev,              \* the latest EvWindow events of this process
    issued,          \* the queries popped so far by this process
    nPops,           \* number of words.pop() calls that returned a word
    nQueries,        \* number of search pages requested
    nEmpty,          \* number of searches that returned no URL
    nLong,           \* number of _long_sleep calls
    atLong,          \* nAppends at the latest _long_sleep call (0: none yet)
    lastFetch,       \* URL of the latest article request (0: none)
    nAppends,        \* number of records this process wrote
    nProgress,       \* number of "Progress" log lines
    oneNew,          \* so far every search returned exactly one unseen URL
                     \* and every article fetch gave a valid sample
    startLen,        \* dataset_length when this process was constructed
    \* ---- DatasetBuilder._ignore_duplicates
    samples,         \* the argument samples
    pos,             \* index of the next sample the for loop visits
    seen_titles,     \* local seen_titles
    unique_samples,  \* local unique_samples
    removed,         \* the "Removed" number of the log line (68-71)
    kept,            \* the "Kept" number of the log line
    epc              \* "off" | "loop" | "returned"

crawlVars == <<store, dataset_length, seen_urls, max_articles, words, track,
               query, rest, sample, pc>>
histVars == <<ev, issued, nPops, nQueries, nEmpty, nLong, atLong, lastFetch,
              nAppends, nProgress, oneNew, startLen>>
exportVars == <<samples, pos, seen_titles, unique_samples, removed, kept, epc>>
vars == <<crawlVars, histVars, exportVars>>

\* ----------------------------------------------------------------- helpers
Urls == 1..MaxUrl
Words == 1..PoolSize
NoSample == [url |-> 0, summary |-> "", text |-> ""]

SeqsUpTo(S, n) == UNION {[1..k -> S] : k \in 0..n}
NoDup(s) == \A i, j \in 1..Len(s) : s[i].url = s[j].url => i = j
Front(s) == SubSeq(s, 1, Len(s) - 1)
LastN(s, n) == IF Len(s) <= n THEN s ELSE SubSeq(s, Len(s) - n + 1, Len(s))

\* a record as _get_article_data builds it (line 168); the title plays no
\* part in any decision of the crawler and is left out of the crawl model
Record(u, summary, text) == [url |-> u, summary |-> summary, text |-> text]

\* top_n_list("lt", 1000): distinct words, most frequent first
TopWords == [i \in Words |-> i]

\* random.shuffle(self.words) gives a permutation of the pool.  No step of the
\* crawler looks at a word, so the model draws the permutation from the
\* rotations of the pool, which put every word at every position.
Rotate(w, k) == [i \in 1..Len(w) |-> w[((i + k - 1) % Len(w)) + 1]]
Shuffles == {Rotate(TopWords, k) : k \in 0..(PoolSize - 1)}

\* what a search page can return, and what an article page can yield
\* a search page lists no article, one, or two (the same twice or different)
UrlLists == {<<>>} \cup {<<u>> : u \in Urls} \cup {<<u, v>> : u, v \in Urls}
Texts == {"", "t"}
Summaries == {"", "s"}

\* --------------------------------------------------------------- recovery
\* _get_dataset_info: replay the file, one record at a time
RECURSIVE Replay(_, _, _)
Replay(s, len, seen) ==
    IF s = <<>> THEN [len |-> len, seen |-> seen]
    ELSE Replay(Tail(s), len + 1, seen \cup {Head(s).url})

\* mutant: the replay counts the records and forgets their urls
GetDatasetInfoNoUrls(s) == [len |-> Replay(s, 0, {}).len, seen |-> {}]

GetDatasetInfo(s) == Replay(s, 0, {})

\* ------------------------------------------------------ decisions of the code
\* mutant: the loop test lets one more pass through
LoopCondLe(len, max) == len <= max

\* while self.dataset_length < self.max_articles
LoopCond(len, max) == len < max

\* if self.dataset_length - track > 25
BatchDue(len, tr) == len - tr > BatchSize

\* mutant: a list without any new URL is treated like an empty list
NoNewUrls(urls) == \A i \in 1..Len(urls) : urls[i] \in seen_urls

\* if not article_urls: return False
NoUrls(urls) == urls = <<>>

\* mutant: the seen test is missing
NeverSeen(u, seen) == FALSE

\* if article_url in self.seen_urls: continue
IsSeen(u, seen) == u \in seen

\* mutant: a sample is dropped only when both text and summary are empty
InvalidBoth(text, summary) == text = "" /\ summary = ""

\* if not text or not summary: return None
Invalid(text, summary) == text = "" \/ summary = ""

\* mutant: the test is made on the count before the increment
ProgressDueBefore(len) == (len - 1) % ProgressEvery = 0

\* if self.dataset_length % 10 == 0
ProgressDue(len) == len % ProgressEvery = 0

Emit(es) == ev' = LastN(ev \o es, EvWindow)

\* what _get_article_urls does, in order (lines 130-151): driver.get, then
\* _short_sleep, then the page source is parsed into urls
SearchEvents(urls) ==
    <<"get_search", "short">> \o (IF urls = <<>> THEN <<"no_urls">> ELSE <<>>)

\* mutant: the article is requested without the short sleep
ArticleEventsNoSleep(httpOk) ==
    <<"get_article">> \o (IF httpOk THEN <<>> ELSE <<"error">>)

\* what _get_article_data does, in order (lines 155-157): _short_sleep, then
\* session.get, then raise_for_status
ArticleEvents(httpOk) ==
    <<"short", "get_article">> \o (IF httpOk THEN <<>> ELSE <<"error">>)

ResetHist(len) ==
    /\ ev' = <<>>
    /\ issued' = {}
    /\ nPops' = 0
    /\ nQueries' = 0
    /\ nEmpty' = 0
    /\ nLong' = 0
    /\ atLong' = 0
    /\ lastFetch' = 0
    /\ nAppends' = 0
    /\ nProgress' = 0
    /\ oneNew' = TRUE
    /\ startLen' = len

ExportOff ==
    /\ samples = <<>>
    /\ pos = 1
    /\ seen_titles = {}
    /\ unique_samples = <<>>
    /\ removed = 0
    /\ kept = 0
    /\ epc = "off"

\* ------------------------------------------------------------------- Init
\* a store the crawler itself wrote earlier: valid records, no URL twice
InitStores == {s \in SeqsUpTo({Record(u, "s", "t") : u \in Urls}, MaxInitStore) : NoDup(s)}

Constructed(s, m, w) ==
    /\ store = s
    /\ dataset_length = GetDatasetInfo(s).len
    /\ seen_urls = GetDatasetInfo(s).seen
    /\ max_articles = m
    /\ words = w
    /\ track = 0
    /\ query = 0
    /\ rest = <<>>
    /\ sample = NoSample
    /\ pc = "idle"
    /\ ev = <<>>
    /\ issued = {}
    /\ nPops = 0
    /\ nQueries = 0
    /\ nEmpty = 0
    /\ nLong = 0
    /\ atLong = 0
    /\ lastFetch = 0
    /\ nAppends = 0
    /\ nProgress = 0
    /\ oneNew = TRUE
    /\ startLen = GetDatasetInfo(s).len

Init ==
    /\ \E s \in InitStores, m \in 0..MaxMaxArticles, w \in Shuffles : Constructed(s, m, w)
    /\ ExportOff

\* ---------------------------------------------------------------- actions
\* Scraper.__init__ run by a new process on the file as it is
Construct ==
    /\ pc = "crashed"
    /\ \E m \in 0..MaxMaxArticles, w \in Shuffles :
        /\ max_articles' = m
        /\ words' = w
    /\ dataset_length' = GetDatasetInfo(store).len
    /\ seen_urls' = GetDatasetInfo(store).seen
    /\ track' = 0
    /\ query' = 0
    /\ rest' = <<>>
    /\ sample' = NoSample
    /\ pc' = "idle"
    /\ ResetHist(GetDatasetInfo(store).len)
    /\ UNCHANGED <<store, exportVars>>

\* scrape(), line 77
StartScrape ==
    /\ pc = "idle"
    /\ track' = dataset_length
    /\ pc' = "loop"
    /\ UNCHANGED <<store, dataset_length, seen_urls, max_articles, words, query,
                   rest, sample, histVars, exportVars>>

\* scrape(), line 78 false, line 90
LoopDone ==
    /\ pc = "loop"
    /\ ~LoopCond(dataset_length, max_articles)
    /\ pc' = "done"
    /\ Emit(<<"done">>)
    /\ UNCHANGED <<store, dataset_length, seen_urls, max_articles, words, track,
                   query, rest, sample, issued, nPops, nQueries, nEmpty, nLong, atLong,
                   lastFetch, nAppends, nProgress, oneNew, startLen,
                   exportVars>>

\* mutant: the empty pool ends the crawl as if it were complete
PopAfterDone(pre) ==
    IF words = <<>>
    THEN /\ pc' = "done"
         /\ Emit(pre \o <<"done">>)
         /\ UNCHANGED <<words, query, issued, nPops>>
    ELSE /\ query' = words[Len(words)]
         /\ words' = Front(words)
         /\ issued' = issued \cup {words[Len(words)]}
         /\ nPops' = nPops + 1
         /\ pc' = "query"
         /\ Emit(pre \o <<"pop">>)

\* mutant: the query is read from the end of the pool and left there
PopAfterKeeps(pre) ==
    IF words = <<>>
    THEN /\ pc' = "failed"
         /\ Emit(pre \o <<"exhausted">>)
         /\ UNCHANGED <<words, query, issued, nPops>>
    ELSE /\ query' = words[Len(words)]
         /\ words' = words
         /\ issued' = issued \cup {words[Len(words)]}
         /\ nPops' = nPops + 1
         /\ pc' = "query"
         /\ Emit(pre \o <<"pop">>)

\* self.words.pop() after the events pre: IndexError on an empty list
PopAfter(pre) ==
    IF words = <<>>
    THEN /\ pc' = "failed"
         /\ Emit(pre \o <<"exhausted">>)
         /\ UNCHANGED <<words, query, issued, nPops>>
    ELSE /\ query' = words[Len(words)]
         /\ words' = Front(words)
         /\ issued' = issued \cup {words[Len(words)]}
         /\ nPops' = nPops + 1
         /\ pc' = "query"
         /\ Emit(pre \o <<"pop">>)

\* scrape(), lines 78-84: one pass of the outer loop up to the pop
LoopContinue ==
    /\ pc = "loop"
    /\ LoopCond(dataset_length, max_articles)
    /\ IF BatchDue(dataset_length, track)
       THEN /\ nLong' = nLong + 1
            /\ atLong' = nAppends
            /\ track' = dataset_length
            /\ PopAfter(<<"long">>)
       ELSE /\ UNCHANGED <<nLong, atLong, track>>
            /\ PopAfter(<<>>)
    /\ UNCHANGED <<store, dataset_length, seen_urls, max_articles, rest, sample,
                   nQueries, nEmpty, lastFetch, nAppends, nProgress,
                   oneNew, startLen, exportVars>>

\* _scrape lines 98-100 with _get_article_urls: driver.get, then the short
\* sleep, then the page is parsed into the list urls
GetArticleUrls(urls) ==
    /\ pc = "query"
    /\ nQueries' = nQueries + 1
    /\ nEmpty' = IF urls = <<>> THEN nEmpty + 1 ELSE nEmpty
    /\ Emit(SearchEvents(urls))
    /\ IF NoUrls(urls)
       THEN /\ pc' = "backoff"
            /\ rest' = <<>>
       ELSE /\ pc' = "urls"
            /\ rest' = urls
    /\ oneNew' = (oneNew /\ Len(urls) = 1 /\ \A i \in 1..Len(urls) : urls[i] \notin seen_urls)
    /\ UNCHANGED <<store, dataset_length, seen_urls, max_articles, words, track,
                   query, sample, issued, nPops, nLong, atLong, lastFetch,
                   nAppends, nProgress, startLen, exportVars>>

Search == \E urls \in UrlLists : GetArticleUrls(urls)

\* mutant: the inner while pops the next query without sleeping
BackoffNoSleep ==
    /\ pc = "backoff"
    /\ PopAfter(<<>>)
    /\ UNCHANGED <<store, dataset_length, seen_urls, max_articles, track, rest,
                   sample, nQueries, nEmpty, nLong, atLong, lastFetch, nAppends,
                   nProgress, oneNew, startLen, exportVars>>

\* scrape(), lines 86-88: the body of the inner while
Backoff ==
    /\ pc = "backoff"
    /\ nLong' = nLong + 1
    /\ atLong' = nAppends
    /\ PopAfter(<<"long">>)
    /\ UNCHANGED <<store, dataset_length, seen_urls, max_articles, track, rest,
                   sample, nQueries, nEmpty, lastFetch, nAppends,
                   nProgress, oneNew, startLen, exportVars>>

\* _scrape line 101 exhausted, line 109: return True, inner while ends
EndFor ==
    /\ pc = "urls"
    /\ rest = <<>>
    /\ pc' = "loop"
    /\ UNCHANGED <<store, dataset_length, seen_urls, max_articles, words, track,
                   query, rest, sample, histVars, exportVars>>

\* _scrape lines 102-103
SkipSeen ==
    /\ pc = "urls"
    /\ rest # <<>>
    /\ IsSeen(Head(rest), seen_urls)
    /\ rest' = Tail(rest)
    /\ UNCHANGED <<store, dataset_length, seen_urls, max_articles, words, track,
                   query, sample, pc, histVars, exportVars>>

\* mutant: a failed request is handled like a search without URLs
AfterFetchBackoff(httpOk, text, summary) ==
    IF ~httpOk THEN "backoff"
    ELSE IF Invalid(text, summary) THEN "urls"
    ELSE "save"

\* where _scrape goes after _get_article_data: raise_for_status raises
\* (nothing catches it), or None is returned, or a sample is returned
AfterFetch(httpOk, text, summary) ==
    IF ~httpOk THEN "failed"
    ELSE IF Invalid(text, summary) THEN "urls"
    ELSE "save"

\* mutant: the URL is marked as seen when its article is requested
GetArticleDataMarksFirst(httpOk, text, summary) ==
    /\ pc = "urls"
    /\ rest # <<>>
    /\ ~IsSeen(Head(rest), seen_urls)
    /\ lastFetch' = Head(rest)
    /\ seen_urls' = seen_urls \cup {Head(rest)}
    /\ pc' = AfterFetch(httpOk, text, summary)
    /\ oneNew' = (oneNew /\ pc' = "save")
    /\ Emit(ArticleEvents(httpOk))
    /\ IF pc' = "save"
       THEN /\ sample' = Record(Head(rest), summary, text)
            /\ UNCHANGED rest
       ELSE IF pc' = "urls"
       THEN /\ rest' = Tail(rest)
            /\ UNCHANGED sample
       ELSE UNCHANGED <<rest, sample>>
    /\ UNCHANGED <<store, dataset_length, max_articles, words, track,
                   query, issued, nPops, nQueries, nEmpty, nLong, atLong,
                   nAppends, nProgress, startLen, exportVars>>

\* _scrape line 105 with _get_article_data (153-169): short sleep, request,
\* raise_for_status, extraction
GetArticleData(httpOk, text, summary) ==
    /\ pc = "urls"
    /\ rest # <<>>
    /\ ~IsSeen(Head(rest), seen_urls)
    /\ lastFetch' = Head(rest)
    /\ pc' = AfterFetch(httpOk, text, summary)
    /\ oneNew' = (oneNew /\ pc' = "save")
    /\ Emit(ArticleEvents(httpOk))
    /\ IF pc' = "save"
       THEN /\ sample' = Record(Head(rest), summary, text)
            /\ UNCHANGED rest
       ELSE IF pc' = "urls"
       THEN /\ rest' = Tail(rest)
            /\ UNCHANGED sample
       ELSE UNCHANGED <<rest, sample>>
    /\ UNCHANGED <<store, dataset_length, seen_urls, max_articles, words, track,
                   query, issued, nPops, nQueries, nEmpty, nLong, atLong, nAppends,
                   nProgress, startLen, exportVars>>

Fetch == \E httpOk \in BOOLEAN, text \in Texts, summary \in Summaries :
            GetArticleData(httpOk, text, summary)

\* mutant: the file is opened for writing, not for appending
SaveAppendTruncates ==
    /\ pc = "save"
    /\ store' = <<sample>>
    /\ nAppends' = nAppends + 1
    /\ pc' = "mark"
    /\ Emit(<<"append">>)
    /\ UNCHANGED <<dataset_length, seen_urls, max_articles, words, track, query,
                   rest, sample, issued, nPops, nQueries, nEmpty, nLong, atLong,
                   lastFetch, nProgress, oneNew, startLen, exportVars>>

\* _save_sample lines 221-225: the record reaches the file
SaveAppend ==
    /\ pc = "save"
    /\ store' = Append(store, sample)
    /\ nAppends' = nAppends + 1
    /\ pc' = "mark"
    /\ Emit(<<"append">>)
    /\ UNCHANGED <<dataset_length, seen_urls, max_articles, words, track, query,
                   rest, sample, issued, nPops, nQueries, nEmpty, nLong, atLong,
                   lastFetch, nProgress, oneNew, startLen, exportVars>>

\* mutant: _save_sample does not add the url to seen_urls
SaveMarkNoSeen ==
    /\ pc = "mark"
    /\ dataset_length' = dataset_length + 1
    /\ nProgress' = IF ProgressDue(dataset_length + 1) THEN nProgress + 1 ELSE nProgress
    /\ rest' = Tail(rest)
    /\ sample' = NoSample
    /\ pc' = "urls"
    /\ Emit(<<"mark">>)
    /\ UNCHANGED <<store, seen_urls, max_articles, words, track, query, issued,
                   nPops, nQueries, nEmpty, nLong, atLong, lastFetch, nAppends, oneNew,
                   startLen, exportVars>>

\* mutant: _save_sample does not count the record
SaveMarkNoCount ==
    /\ pc = "mark"
    /\ seen_urls' = seen_urls \cup {sample.url}
    /\ rest' = Tail(rest)
    /\ sample' = NoSample
    /\ pc' = "urls"
    /\ Emit(<<"mark">>)
    /\ UNCHANGED <<store, dataset_length, max_articles, words, track, query,
                   issued, nPops, nQueries, nEmpty, nLong, atLong, lastFetch, nAppends,
                   nProgress, oneNew, startLen, exportVars>>

\* _save_sample lines 227-233, then the for loop moves on
SaveMark ==
    /\ pc = "mark"
    /\ seen_urls' = seen_urls \cup {sample.url}
    /\ dataset_length' = dataset_length + 1
    /\ nProgress' = IF ProgressDue(dataset_length + 1) THEN nProgress + 1 ELSE nProgress
    /\ rest' = Tail(rest)
    /\ sample' = NoSample
    /\ pc' = "urls"
    /\ Emit(<<"mark">>)
    /\ UNCHANGED <<store, max_articles, words, track, query, issued, nPops,
                   nQueries, nEmpty, nLong, atLong, lastFetch, nAppends, oneNew,
                   startLen, exportVars>>

\* the process ends: killed at any point, or exiting after scrape() returned
\* or raised; its memory is gone
Crash ==
    /\ pc # "crashed"
    /\ pc' = "crashed"
    /\ dataset_length' = 0
    /\ seen_urls' = {}
    /\ max_articles' = 0
    /\ words' = <<>>
    /\ track' = 0
    /\ query' = 0
    /\ rest' = <<>>
    /\ sample' = NoSample
    /\ ResetHist(0)
    /\ UNCHANGED <<store, exportVars>>

Next ==
    \/ Construct
    \/ StartScrape
    \/ LoopDone
    \/ LoopContinue
    \/ Search
    \/ Backoff
    \/ EndFor
    \/ SkipSeen
    \/ Fetch
    \/ SaveAppend
    \/ SaveMark
    \/ Crash

Spec == Init /\ [][Next]_vars

\* One run of scrape() in one process that is not killed.  The process is a
\* single synchronous thread: when every collaborator call and every sleep
\* returns, the step the code is at is eventually taken.
NextRun ==
    \/ StartScrape
    \/ LoopDone
    \/ LoopContinue
    \/ Search
    \/ Backoff
    \/ EndFor
    \/ SkipSeen
    \/ Fetch
    \/ SaveAppend
    \/ SaveMark

SpecRun == Init /\ [][NextRun]_vars /\ WF_vars(NextRun)

\* ------------------------------------------------------------------------
\* The crawl of a fetcher that gives exactly one new valid sample per query,
\* from an empty store, with max_articles beyond the batch size.
BatchSlack == 3        \* max_articles is drawn from BatchSize+1 .. BatchSize+BatchSlack
OnePool == BatchSize + BatchSlack + 2

\* a URL the crawler has not seen
FreshUrl == Cardinality(seen_urls) + 1

InitOne ==
    /\ \E m \in (BatchSize + 1)..(BatchSize + BatchSlack), k \in 0..(OnePool - 1) :
          Constructed(<<>>, m, Rotate([i \in 1..OnePool |-> i], k))
    /\ ExportOff

SearchOne == GetArticleUrls(<<FreshUrl>>)

FetchOne == GetArticleData(TRUE, "t", "s")

NextOne ==
    \/ StartScrape
    \/ LoopDone
    \/ LoopContinue
    \/ SearchOne
    \/ EndFor
    \/ FetchOne
    \/ SaveAppend
    \/ SaveMark

SpecOne == InitOne /\ [][NextOne]_vars

\* ------------------------------------------------------------------------
\* The crawl of a fetcher whose searches return either nothing or one new
\* valid article, resumed on a store that may already hold records, with
\* max_articles far enough for the batch sleep and the progress log.
MaxResume == 3         \* most records in the store the crawl is resumed on

\* the file a former run left: valid records of the URLs 1..k
ResumeStore(k) == [i \in 1..k |-> Record(i, "s", "t")]

InitBatch ==
    /\ \E k \in 0..MaxResume :
          Constructed(ResumeStore(k), k + BatchSize + 2, [i \in 1..OnePool |-> i])
    /\ ExportOff

SearchBatch == \E urls \in {<<>>, <<FreshUrl>>} : GetArticleUrls(urls)

NextBatch ==
    \/ StartScrape
    \/ LoopDone
    \/ LoopContinue
    \/ SearchBatch
    \/ Backoff
    \/ EndFor
    \/ FetchOne
    \/ SaveAppend
    \/ SaveMark

SpecBatch == InitBatch /\ [][NextBatch]_vars

\* ------------------------------------------------------------------------
\* DatasetBuilder._ignore_duplicates (dataset_builder.py 57-72)
MaxSamples == 4        \* longest input of _ignore_duplicates

\* a title is a sequence of characters; " " and "\t" are whitespace
Whitespace == {" ", "\t"}
Titles == {<<>>, <<" ">>, <<"X">>, <<" ", "X">>, <<"X", "\t">>, <<"Y">>, <<" ", "Y", " ">>}

\* a stored sample with a title, and one whose record has no "title" key;
\* the url is the sample's place in the file
WithTitle(u, t) == [url |-> u, title |-> t]
NoTitle(u) == [url |-> u]
TitleChoices == {[has |-> TRUE, title |-> t] : t \in Titles} \cup {[has |-> FALSE, title |-> <<>>]}
SampleAt(u, c) == IF c.has THEN WithTitle(u, c.title) ELSE NoTitle(u)
SamplesOf(f) == [i \in DOMAIN f |-> SampleAt(i, f[i])]

\* str.strip(): drop leading and trailing whitespace
RECURSIVE LStrip(_)
LStrip(t) == IF t # <<>> /\ Head(t) \in Whitespace THEN LStrip(Tail(t)) ELSE t
RECURSIVE RStrip(_)
RStrip(t) == IF t # <<>> /\ t[Len(t)] \in Whitespace THEN RStrip(Front(t)) ELSE t
\* mutant: only the leading whitespace is dropped
StripLeft(t) == LStrip(t)
Strip(t) == RStrip(LStrip(t))

\* sample.get("title", "").strip()
TitleOf(smp) == Strip(IF "title" \in DOMAIN smp THEN smp.title ELSE <<>>)

\* mutant: the test on seen_titles is missing
KeepTitleNonEmpty(title, seen) == title # <<>>

\* if title and title not in seen_titles
KeepTitle(title, seen) == title # <<>> /\ title \notin seen

InitExport ==
    /\ \E n \in 0..MaxSamples : \E f \in [1..n -> TitleChoices] : samples = SamplesOf(f)
    /\ pos = 1
    /\ seen_titles = {}
    /\ unique_samples = <<>>
    /\ removed = 0
    /\ kept = 0
    /\ epc = "loop"
    /\ store = <<>>
    /\ dataset_length = 0
    /\ seen_urls = {}
    /\ max_articles = 0
    /\ words = <<>>
    /\ track = 0
    /\ query = 0
    /\ rest = <<>>
    /\ sample = NoSample
    /\ pc = "crashed"
    /\ ev = <<>>
    /\ issued = {}
    /\ nPops = 0
    /\ nQueries = 0
    /\ nEmpty = 0
    /\ nLong = 0
    /\ atLong = 0
    /\ lastFetch = 0
    /\ nAppends = 0
    /\ nProgress = 0
    /\ oneNew = TRUE
    /\ startLen = 0

\* one pass of the for loop, lines 62-66
DedupStep ==
    /\ epc = "loop"
    /\ pos <= Len(samples)
    /\ IF KeepTitle(TitleOf(samples[pos]), seen_titles)
       THEN /\ seen_titles' = seen_titles \cup {TitleOf(samples[pos])}
            /\ unique_samples' = Append(unique_samples, samples[pos])
       ELSE UNCHANGED <<seen_titles, unique_samples>>
    /\ pos' = pos + 1
    /\ UNCHANGED <<samples, removed, kept, epc, crawlVars, histVars>>

\* the loop is over: the log line (68-71) and return unique_samples
DedupReturn ==
    /\ epc = "loop"
    /\ pos > Len(samples)
    /\ removed' = Len(samples) - Len(unique_samples)
    /\ kept' = Len(unique_samples)
    /\ epc' = "returned"
    /\ UNCHANGED <<samples, pos, seen_titles, unique_samples, crawlVars, histVars>>

\* _ignore_duplicates is called again, on the list it has just returned
DedupAgain ==
    /\ epc = "returned"
    /\ samples' = unique_samples
    /\ pos' = 1
    /\ seen_titles' = {}
    /\ unique_samples' = <<>>
    /\ epc' = "loop"
    /\ UNCHANGED <<removed, kept, crawlVars, histVars>>

NextExport == DedupStep \/ DedupReturn \/ DedupAgain

SpecExport == InitExport /\ [][NextExport]_vars

\* ------------------------------------------------------------------------
\* Properties
EndsWith(s, suf) ==
    /\ Len(s) >= Len(suf)
    /\ SubSeq(s, Len(s) - Len(suf) + 1, Len(s)) = suf

Alive == pc # "crashed"

\* C1: no URL is ever in the store file twice, whatever the search pages
\* return and wherever a process is killed and restarted (also between the
\* write of a record and the update of seen_urls and dataset_length).
C1_NoDuplicateUrls ==
    \A i, j \in 1..Len(store) : i # j => store[i].url # store[j].url

\* a restarted process has written a record it has not marked yet, and the
\* URL list of the query holds that URL a second time
C1_Witness ==
    /\ pc = "mark"
    /\ startLen >= 1
    /\ sample.url \notin seen_urls
    /\ Len(rest) = 2
    /\ rest[2] = rest[1]

\* C2: between its operations (construction, queries, skipped URLs, NotFound
\* results, completed saves) the crawler's dataset_length is the number of
\* records in the store file; inside _save_sample, after the write and before
\* the increment, it is one less.
C2_CountIsStoreLength ==
    /\ (Alive /\ pc # "mark") => dataset_length = Len(store)
    /\ pc = "mark" => dataset_length + 1 = Len(store)

C2_Witness ==
    /\ pc = "done"
    /\ startLen >= 1
    /\ nEmpty >= 1
    /\ nAppends >= 2

\* C3: a freshly constructed crawler has dataset_length equal to the number
\* of records of the store and seen_urls equal to the set of their urls; the
\* state depends on the store alone, so constructing again on the unchanged
\* store gives the same.
C3_Recovery ==
    pc = "idle" =>
        /\ dataset_length = Len(store)
        /\ seen_urls = {store[i].url : i \in 1..Len(store)}
        /\ startLen = Len(store)

C3_Witness ==
    /\ pc = "idle"
    /\ Len(store) = MaxUrl
    /\ dataset_length = MaxUrl

\* C4: once dataset_length >= max_articles no step issues another query and
\* the loop test leads to done; a process started on a store with at least
\* max_articles records issues no query; and when every search gave exactly
\* one unseen URL with a valid sample, from an empty store, scrape is done
\* after exactly max_articles appends and max_articles queries.
C4_NoQueryAfterMax ==
    /\ [](/\ (Alive /\ startLen >= max_articles) => (nQueries = 0 /\ nPops = 0)
          /\ (pc = "done" /\ oneNew /\ startLen = 0) =>
                (nAppends = max_articles /\ nQueries = max_articles))
    /\ [][(Alive /\ dataset_length >= max_articles) =>
            /\ nQueries' <= nQueries
            /\ nPops' <= nPops
            /\ pc = "loop" => pc' \in {"done", "crashed"}]_vars

C4_Witness ==
    /\ pc = "done"
    /\ oneNew
    /\ startLen = 0
    /\ max_articles = 3
    /\ nAppends = 3
    /\ nQueries = 3

\* C5: started on a store with at most max_articles records, the store never
\* holds more than max_articles records.
C5_NeverExceedsMax ==
    (Alive /\ startLen <= max_articles) => Len(store) <= max_articles

\* C6: a search that returns no URL is followed by exactly one long sleep,
\* then by the pop of a word not popped before (or by the failure of the pop),
\* then by the search for it; and when the first search is empty and the
\* second gives one valid sample, one long sleep precedes the append.
C6_BackoffOnEmpty ==
    /\ \A i \in 1..Len(ev) : ev[i] = "no_urls" =>
          /\ i + 1 <= Len(ev) => ev[i + 1] = "long"
          /\ i + 2 <= Len(ev) => ev[i + 2] \in {"pop", "exhausted"}
          /\ i + 3 <= Len(ev) => ev[i + 3] = "get_search"
    /\ (Alive /\ EndsWith(ev, <<"no_urls">>)) => pc = "backoff"
    /\ nPops = Cardinality(issued)
    /\ (nQueries = 2 /\ nEmpty = 1 /\ nAppends = 1 /\ EndsWith(ev, <<"append">>)) =>
          nLong = 1

C6_Witness ==
    /\ nQueries = 2
    /\ nEmpty = 1
    /\ nAppends = 1
    /\ nLong = 1
    /\ EndsWith(ev, <<"append">>)

\* C7: with one new valid sample per query, when the 26th search has been
\* issued after 25 appends, exactly one long sleep has happened.
C7_LongSleepAfter25 ==
    (nAppends = BatchSize /\ nQueries = BatchSize + 1) => nLong = 1

\* what the code does instead (line 79 tests > 25): no long sleep during the
\* first 26 appends, and one has happened when the 27th search is issued
BatchSleepAfter26 ==
    /\ nAppends <= BatchSize => nLong = 0
    /\ nAppends = BatchSize + 1 => nLong <= 1
    /\ (nAppends = BatchSize + 1 /\ nQueries = BatchSize + 2) => nLong = 1

\* C8: after an HTTP error of an article request the crawler is
\* where an empty search leaves it: about to long-sleep and pop the next query.
C8_ErrorIsBackoff ==
    EndsWith(ev, <<"get_article", "error">>) => pc = "backoff"

\* C8, amended: an HTTP error of an article request ends the run: the step that
\* raises it sleeps no long sleep, pops no query and writes nothing, and from
\* the failed state the only step is the end of the process, store unchanged.
C8_ErrorStopsRun ==
    [][/\ (Alive /\ pc # "failed" /\ EndsWith(ev', <<"get_article", "error">>)) =>
            /\ pc' = "failed"
            /\ nLong' = nLong
            /\ nPops' = nPops
            /\ nQueries' = nQueries
            /\ store' = store
       /\ pc = "failed" => (pc' = "crashed" /\ store' = store)]_vars

C8_Witness ==
    /\ pc = "failed"
    /\ EndsWith(ev, <<"get_article", "error">>)
    /\ nAppends >= 1
    /\ words # <<>>

\* C9: right after every article request (answered or failed) the requested
\* URL is neither in seen_urls nor in the store: no request is made for a URL
\* already seen.
C9_NoFetchOfSeen ==
    (EndsWith(ev, <<"get_article">>) \/ EndsWith(ev, <<"get_article", "error">>)) =>
        /\ lastFetch \notin seen_urls
        /\ \A i \in 1..Len(store) : store[i].url # lastFetch

\* a resumed process meets again, in the same list, the URL it has just saved
C9_Witness ==
    /\ pc = "urls"
    /\ startLen >= 1
    /\ rest # <<>>
    /\ Head(rest) \in seen_urls
    /\ Head(rest) = lastFetch

\* C10: _ignore_duplicates returns exactly the samples that are, in storage
\* order, the first of their non-empty whitespace-trimmed title; samples with
\* a missing, empty or all-whitespace title are dropped; titles [X, X, empty,
\* Y] keep the first and the fourth sample, 2 removed.
RawTitle(smp) == IF "title" \in DOMAIN smp THEN smp.title ELSE <<>>

\* t is s without its leading and trailing whitespace
IsTrimOf(t, s) ==
    \E a \in 1..(Len(s) + 1), b \in 0..Len(s) :
        /\ t = SubSeq(s, a, b)
        /\ \A k \in 1..Len(s) : (k < a \/ k > b) => s[k] \in Whitespace
        /\ t # <<>> => (t[1] \notin Whitespace /\ t[Len(t)] \notin Whitespace)

Trimmed(smp) ==
    CHOOSE t \in {SubSeq(RawTitle(smp), a, b) : a \in 1..(Len(RawTitle(smp)) + 1),
                                                b \in 0..Len(RawTitle(smp))} :
        IsTrimOf(t, RawTitle(smp))

FirstOfItsTitle(i) ==
    /\ Trimmed(samples[i]) # <<>>
    /\ \A j \in 1..(i - 1) : Trimmed(samples[j]) # Trimmed(samples[i])

RECURSIVE FirstOccurrences(_)
FirstOccurrences(n) ==
    IF n = 0 THEN <<>>
    ELSE IF FirstOfItsTitle(n) THEN Append(FirstOccurrences(n - 1), samples[n])
    ELSE FirstOccurrences(n - 1)

ExampleSamples ==
    <<WithTitle(1, <<"X">>), WithTitle(2, <<"X">>), WithTitle(3, <<>>), WithTitle(4, <<"Y">>)>>

C10_TitleDedup ==
    epc = "returned" =>
        /\ unique_samples = FirstOccurrences(Len(samples))
        /\ samples = ExampleSamples =>
              /\ unique_samples = <<ExampleSamples[1], ExampleSamples[4]>>
              /\ removed = 2

C10_Witness ==
    /\ epc = "returned"
    /\ samples = ExampleSamples
    /\ Len(unique_samples) = 2
    /\ removed = 2

\* ------------------------------------------------------------------------
\* ------------------------------------------------------------------------
\* the pop is about to run on an empty pool: the body of the inner while, or
\* the outer loop with the count below max_articles
PopOnEmptyPool ==
    /\ words = <<>>
    /\ pc = "backoff" \/ (pc = "loop" /\ LoopCond(dataset_length, max_articles))

Exhausted == pc = "failed" /\ EndsWith(ev, <<"exhausted">>)

\* C11: when the pool is empty and the count is below max_articles, the next
\* step of the crawl is the failure of the pop, which leaves the store as it
\* was; the failed run never reaches done; at the failure every word of the
\* pool was issued exactly once, every query was searched, every empty search
\* was followed by a long sleep, and the count is below max_articles.
C11_ExhaustionIsFatal ==
    /\ [](Exhausted =>
            /\ words = <<>>
            /\ dataset_length < max_articles
            /\ issued = Words
            /\ nPops = PoolSize
            /\ nQueries = PoolSize
            /\ nLong >= nEmpty)
    /\ [][/\ (PopOnEmptyPool /\ pc' # "crashed") =>
              (pc' = "failed" /\ EndsWith(ev', <<"exhausted">>) /\ store' = store)
          /\ (pc # "failed" /\ EndsWith(ev', <<"exhausted">>)) => PopOnEmptyPool
          /\ pc = "failed" => (pc' = "crashed" /\ store' = store)]_vars

\* every query of the pool was empty and the pop after the last long sleep
\* failed, on a store that had records
C11_Witness ==
    /\ Exhausted
    /\ nEmpty = PoolSize
    /\ nLong = PoolSize
    /\ EndsWith(ev, <<"no_urls", "long", "exhausted">>)
    /\ store # <<>>

\* ------------------------------------------------------------------------
\* C12 as stated: every page request, of a search page or of an article, has
\* a short sleep right before it.
C12_DelayBeforeEveryFetch ==
    \A i \in 2..Len(ev) :
        ev[i] \in {"get_search", "get_article"} => ev[i - 1] = "short"

\* C12: every article request has a short sleep right before it; every
\* search request comes right after the pop of its query, with no sleep
\* before it, and has a short sleep right after it.
C12_DelayAroundFetch ==
    \A i \in 1..Len(ev) :
        /\ (ev[i] = "get_article" /\ i > 1) => ev[i - 1] = "short"
        /\ (ev[i] = "get_search" /\ i > 1) => ev[i - 1] = "pop"
        /\ ev[i] = "get_search" => (i < Len(ev) /\ ev[i + 1] = "short")

\* the sleep after the search request, then the sleep before the article
\* request, then the article request, which gave a valid sample
C12_Witness ==
    /\ ev = <<"short", "short", "get_article">>
    /\ nQueries = 1
    /\ pc = "save"

\* ------------------------------------------------------------------------
\* the for loop of _scrape is at a URL it has not seen: it requests the article
AtUnseenUrl == pc = "urls" /\ rest # <<>> /\ ~IsSeen(Head(rest), seen_urls)

\* C13: every record of the store, and the sample about to be written, has a
\* non-empty text and a non-empty summary; and an article request after which
\* the for loop goes on (None was returned) changes neither the store nor
\* seen_urls nor dataset_length, causes no long sleep, and leaves the loop at
\* the next URL of the same query.
C13_InvalidNeverStored ==
    /\ [](/\ \A i \in 1..Len(store) : store[i].text # "" /\ store[i].summary # ""
          /\ pc \in {"save", "mark"} => (sample.text # "" /\ sample.summary # ""))
    /\ [][(AtUnseenUrl /\ pc' = "urls") =>
             /\ EndsWith(ev', <<"short", "get_article">>)
             /\ store' = store
             /\ seen_urls' = seen_urls
             /\ dataset_length' = dataset_length
             /\ nAppends' = nAppends
             /\ nLong' = nLong
             /\ query' = query
             /\ rest' = Tail(rest)]_vars

\* an article gave no sample, nothing was written, and the for loop has the
\* next URL of the same query before it
C13_Witness ==
    /\ pc = "urls"
    /\ EndsWith(ev, <<"short", "get_article">>)
    /\ lastFetch \notin seen_urls
    /\ rest # <<>>
    /\ nQueries = 1
    /\ nAppends = 0
    /\ Len(store) = startLen

\* ------------------------------------------------------------------------
StoreUrls == {store[i].url : i \in 1..Len(store)}

\* C14: while a process lives, every URL of seen_urls is the URL of a record
\* of the store and dataset_length is at most the number of records; no step
\* of a process lowers dataset_length or removes a URL from seen_urls; and
\* the two change only in the step right after an append, which adds the URL
\* of the record just written and adds one to the count.
C14_StateFollowsStore ==
    /\ [](Alive => (seen_urls \subseteq StoreUrls /\ dataset_length <= Len(store)))
    /\ [][(Alive /\ pc' # "crashed") =>
             /\ dataset_length' >= dataset_length
             /\ seen_urls \subseteq seen_urls'
             /\ (seen_urls' # seen_urls \/ dataset_length' # dataset_length) =>
                   /\ EndsWith(ev, <<"append">>)
                   /\ store' = store
                   /\ seen_urls' = seen_urls \cup {store[Len(store)].url}
                   /\ dataset_length' = dataset_length + 1]_vars

\* between the write and the mark of the second record this process adds to
\* a store that had records: the new URL is in the store, not yet in seen_urls
C14_Witness ==
    /\ pc = "mark"
    /\ nAppends = 2
    /\ startLen >= 1
    /\ seen_urls # StoreUrls
    /\ seen_urls \subseteq StoreUrls
    /\ dataset_length = Len(store) - 1

\* ------------------------------------------------------------------------
\* records this process wrote since its latest long sleep, or since its start
SinceLong == nAppends - atLong

\* C15 as stated: at every long sleep at most 25 records were written since
\* the long sleep before it (or since the start), and at a long sleep of the
\* batch test at least 25 were written since the latest long sleep of either
\* kind.
C15_BatchSinceLastLong ==
    [][/\ nLong' = nLong + 1 => SinceLong <= BatchSize
       /\ (pc = "loop" /\ nLong' = nLong + 1) => SinceLong >= BatchSize]_vars

\* what the code does: the batch test compares the count with its value at
\* the start or at the latest long sleep of the batch test itself
BatchSleepSinceTrack ==
    [][(pc = "loop" /\ nLong' = nLong + 1) =>
          (dataset_length - track > BatchSize /\ track' = dataset_length)]_vars

\* ------------------------------------------------------------------------
IsPrefix(s, t) == Len(s) <= Len(t) /\ SubSeq(t, 1, Len(s)) = s

\* C16: every step, of a run, a kill, a fatal stop or a restart, leaves the
\* store as it was or adds one record at its end; the added record is the
\* sample of the latest article request, written right after that request
\* with no other request in between.
C16_AppendOnlyInFetchOrder ==
    [][/\ IsPrefix(store, store')
       /\ store' # store =>
             /\ store' = Append(store, sample)
             /\ sample.url = lastFetch
             /\ EndsWith(ev, <<"short", "get_article">>)]_vars

\* a run resumed on a store with records wrote one more and then stopped on
\* a failed request: the old records and the new one are all there
C16_Witness ==
    /\ pc = "failed"
    /\ startLen >= 1
    /\ nAppends = 1
    /\ Len(store) = startLen + 1
    /\ store[Len(store)].url \in seen_urls

\* ------------------------------------------------------------------------
\* C17 as stated: the number of progress lines of a run is the number of
\* whole tens among the records the run itself has written and counted.
C17_ProgressPerRun ==
    pc # "mark" => nProgress = nAppends \div ProgressEvery

\* C17: the number of progress lines of a run is the number of multiples of
\* ten the total count dataset_length has reached during the run, and a
\* progress line is written only by the step that brings the total to a
\* multiple of ten.
C17_ProgressOnTotal ==
    /\ [](nProgress = (dataset_length \div ProgressEvery) - (startLen \div ProgressEvery))
    /\ [][nProgress' # nProgress =>
             /\ nProgress' = nProgress + 1
             /\ dataset_length' = dataset_length + 1
             /\ dataset_length' % ProgressEvery = 0]_vars

\* a run resumed on three records has written seven and logged progress once
C17_Witness ==
    /\ startLen = 3
    /\ nAppends = 7
    /\ dataset_length = 10
    /\ nProgress = 1

\* ------------------------------------------------------------------------
\* scrape() has returned or an exception has left it
Ended == pc \in {"done", "failed"}

\* C18: a run that is not killed ends; it ends in done with the count at
\* max_articles or beyond, in the failed pop on the empty pool, or in a failed
\* article request; at every point the words popped and the words left make
\* up the pool, no word was popped twice, at most one search was made per
\* word of the pool, and a step leaves the pool as it was or removes its last
\* word.
C18_ScrapeTerminates ==
    /\ <>Ended
    /\ [](/\ nPops + Len(words) = PoolSize
          /\ nPops = Cardinality(issued)
          /\ issued \cap {words[i] : i \in 1..Len(words)} = {}
          /\ nQueries <= nPops
          /\ nQueries <= PoolSize
          /\ pc = "done" => dataset_length >= max_articles
          /\ pc = "failed" =>
                (Exhausted \/ EndsWith(ev, <<"short", "get_article", "error">>)))
    /\ [][words' = words \/ (words # <<>> /\ words' = Front(words))]_vars

\* the run ended in done after it had used every word of the pool
C18_Witness ==
    /\ pc = "done"
    /\ words = <<>>
    /\ nQueries = PoolSize
    /\ Cardinality(issued) = PoolSize

\* ------------------------------------------------------------------------
\* C19: as long as the batch test cannot be due (at most 25 records written
\* by the run), a long sleep happens exactly after a search that returned no
\* URL: in the latest events "long" follows "no_urls" and nothing else; the
\* number of long sleeps is the number of empty searches (less the one whose
\* sleep is still to come); a search that returned URLs goes to the for loop,
\* whatever becomes of its URLs; and a step sleeps long only right after an
\* empty search.
C19_LongSleepIffNoUrls ==
    /\ [](nAppends <= BatchSize =>
            /\ \A i \in 2..Len(ev) : ev[i] = "long" <=> ev[i - 1] = "no_urls"
            /\ nLong = nEmpty - (IF pc = "backoff" THEN 1 ELSE 0))
    /\ [][/\ (pc = "query" /\ nEmpty' = nEmpty /\ pc' # "crashed") => pc' = "urls"
          /\ (nLong' = nLong + 1 /\ nAppends <= BatchSize) =>
                EndsWith(ev, <<"no_urls">>)
          /\ (pc = "urls" /\ pc' = "loop") => (nLong' = nLong /\ ev' = ev)]_vars

\* the URLs of the first query gave no sample (the last one had no text or no
\* summary); the next query was popped with no long sleep
C19_Witness ==
    /\ EndsWith(ev, <<"short", "get_article", "pop">>)
    /\ nQueries = 1
    /\ nPops = 2
    /\ nEmpty = 0
    /\ nAppends = 0
    /\ nLong = 0

\* every URL of the second query was seen already: no request, no record, no
\* long sleep, and the third query was popped
C19_WitnessSeen ==
    /\ ev = <<"get_search", "short", "pop">>
    /\ nQueries = 2
    /\ nPops = 3
    /\ nEmpty = 0
    /\ nLong = 0

\* ------------------------------------------------------------------------
\* the loop runs on the list an earlier call returned: that call has logged
\* its numbers, which are both zero until the first call returns
OnOwnOutput == epc = "loop" /\ removed + kept > 0

\* C20: when _ignore_duplicates returns, the trimmed titles of its output are
\* non-empty and pairwise distinct, every sample of the output is a sample of
\* the input, and the logged numbers removed and kept add up to the length
\* of the input, kept being the length of the output; and a call on the
\* output of an earlier call returns its input unchanged.
C20_IdempotentConservative ==
    /\ [](epc = "returned" =>
            /\ \A i \in 1..Len(unique_samples) : Trimmed(unique_samples[i]) # <<>>
            /\ \A i, j \in 1..Len(unique_samples) :
                  Trimmed(unique_samples[i]) = Trimmed(unique_samples[j]) => i = j
            /\ \A i \in 1..Len(unique_samples) :
                  \E j \in 1..Len(samples) : samples[j] = unique_samples[i]
            /\ kept = Len(unique_samples)
            /\ removed + kept = Len(samples))
    /\ [][(OnOwnOutput /\ epc' = "returned") =>
             (unique_samples' = samples /\ removed' = 0)]_vars

\* the output of the call on ExampleSamples was passed in again and came
\* back as it was
C20_Witness ==
    /\ epc = "returned"
    /\ samples = <<ExampleSamples[1], ExampleSamples[4]>>
    /\ unique_samples = samples
    /\ removed = 0
    /\ kept = 2

TypeOK ==
    /\ dataset_length \in Nat
    /\ seen_urls \subseteq Nat
    /\ pc \in {"idle", "loop", "query", "backoff", "urls", "save", "mark",
               "done", "failed", "crashed"}
    /\ epc \in {"off", "loop", "returned"}
    /\ Len(ev) <= EvWindow
====
